---- MODULE Spec2Model ----
(***************************************************************************)
(* Model of the avatar agent's session entrypoint (src/avatar_agent.py):   *)
(* the start-up sequence, the data-message handler tasks, the participant  *)
(* monitor loop and the clean-up it runs when the room stays empty.        *)
(*                                                                         *)
(* One action is one run of a coroutine from one suspension point (await)  *)
(* to the next; the outcome of every awaited external call (success or an  *)
(* exception) is an input of the action that resumes after it.             *)
(***************************************************************************)
EXTENDS Integers, Sequences, FiniteSets, TLC

VARIABLES
    pc,                  \* position of entrypoint()
    result,              \* "running", "returned" or "raised": how entrypoint() ended
    failures,            \* the awaited/constructing calls of entrypoint() that raised
    room_connected,      \* ctx.room is connected
    registered,          \* on_data_received is registered on ctx.room
    initial_count,       \* local initial_count of entrypoint()
    empty_room_counter,  \* local empty_room_counter of entrypoint()
    cleanup,             \* what the clean-up block has attempted so far
    agent_instructions,  \* agent.instructions
    tasks,               \* the handle_data() tasks, in the order they were created
    obs,                 \* observer: current_count of every tick so far
    ctr_hist,            \* observer: empty_room_counter after every tick so far
    teardownAt,          \* observer: index of the tick that began the clean-up, 0 if none
    beat,                \* observer: parity of the number of ticks so far
    steps,               \* the lifecycle steps entrypoint() has completed, in order
    counter_file,        \* token server: what counter.txt holds
    responses            \* token server: the outcome of every /token request so far

vars == <<pc, result, failures, room_connected, registered, initial_count,
          empty_room_counter, cleanup, agent_instructions, tasks,
          obs, ctr_hist, teardownAt, beat, steps, counter_file, responses>>

mainVars == <<pc, result, failures, room_connected, registered, initial_count,
              empty_room_counter, cleanup, steps>>
observerVars == <<obs, ctr_hist, teardownAt, beat>>
tokenVars == <<counter_file, responses>>
agentVars == <<mainVars, agent_instructions, tasks, observerVars>>

----------------------------------------------------------------------------
(* Bounds *)

MaxTasks == 2        \* handle_data() tasks created in one run
MaxCount == 1        \* largest remote-participant count a tick can observe
MaxTicks == 9        \* ticks of an observed run (SpecMonitor)
MaxRequests == 3     \* /token requests of one run (SpecToken)

Counts == 0..MaxCount

----------------------------------------------------------------------------
(* Values *)

ABSENT == "<absent>"          \* a key the JSON object does not have
NONE == "<None>"              \* Python's None
UNSET == "<unset>"            \* a local that was never assigned
NOT_GIVEN == "<NOT_GIVEN>"    \* generate_reply() called without instructions

DefaultInstructions == "You are a helpful AI assistant with a visual avatar."

IdleThreshold == 4

AgentHasInstructions == TRUE

(* The packets the room can deliver.  payload says what data_packet.data      *)
(* holds; type and content are the JSON object's keys (ABSENT when the key is *)
(* missing or when the payload is no JSON object); sender is FALSE when       *)
(* data_packet.participant is None.                                           *)
ObjectPackets ==
    [payload : {"json_object"}, sender : {TRUE},
     type : {ABSENT, "user_message", "ping"}, content : {ABSENT, "a", "b"}]

OtherPackets ==
    [payload : {"invalid_utf8", "invalid_json", "json_non_object"}, sender : {TRUE},
     type : {ABSENT}, content : {ABSENT}]
    \cup
    [payload : {"json_object"}, sender : {FALSE},
     type : {"user_message", "ping"}, content : {"a"}]

Packets == ObjectPackets \cup OtherPackets

(* str(counter): the decimal digits of a number, most significant first *)
RECURSIVE Digits(_)
Digits(n) == IF n < 10 THEN <<n>> ELSE Append(Digits(n \div 10), n % 10)

(* int(text) of a text of decimal digits *)
RECURSIVE ParseInt(_)
ParseInt(ds) ==
    IF Len(ds) = 0 THEN 0
    ELSE 10 * ParseInt(SubSeq(ds, 1, Len(ds) - 1)) + ds[Len(ds)]

DigitChar == <<"0", "1", "2", "3", "4", "5", "6", "7", "8", "9">>

(* the digits as the text an f-string inserts *)
RECURSIVE Text(_)
Text(ds) ==
    IF Len(ds) = 0 THEN ""
    ELSE Text(SubSeq(ds, 1, Len(ds) - 1)) \o DigitChar[ds[Len(ds)] + 1]

(* counter.txt before the first request: missing (written <<>>), or the *)
(* digits an earlier run of the server wrote.                           *)
NO_FILE == <<>>
StoredCounters == {1, 9, 99}
CounterFiles == {NO_FILE} \cup {Digits(n) : n \in StoredCounters}

----------------------------------------------------------------------------
(* Initial state: entrypoint() has been called and is about to connect; *)
(* the token server has answered no request yet.                        *)

NoCleanup ==
    [deleteAttempts |-> 0, closeAttempts |-> 0, disconnectAttempts |-> 0,
     lk_api_bound |-> FALSE, deleteOutcome |-> "none", disconnectOutcome |-> "none"]

AgentInit ==
    /\ pc = "connect"
    /\ result = "running"
    /\ failures = {}
    /\ room_connected = FALSE
    /\ registered = FALSE
    /\ initial_count = 0
    /\ empty_room_counter = 0
    /\ cleanup = NoCleanup
    /\ agent_instructions = DefaultInstructions
    /\ tasks = <<>>
    /\ obs = <<>>
    /\ ctr_hist = <<>>
    /\ teardownAt = 0
    /\ beat = 0
    /\ steps = <<>>

(* The agent process: the token server is another process and is not running. *)
Init ==
    /\ AgentInit
    /\ counter_file = NO_FILE
    /\ responses = <<>>

(* The token server process, before its first request. *)
TokenInit ==
    /\ AgentInit
    /\ counter_file \in CounterFiles
    /\ responses = <<>>

----------------------------------------------------------------------------
(* entrypoint(): the start-up sequence *)

(* Variant: the top-level handler logs and re-raises. *)
EntrypointExcept_Reraise(op) == "raised"

(* `except Exception` of entrypoint(): the exception is logged, the finally *)
(* block logs, and entrypoint() returns normally.                          *)
EntrypointExcept(op) == "returned"

(* Variant: the failing step is wrapped in its own try/except that logs and *)
(* carries on with the router registration.                                *)
Fault_Swallowed(op) ==
    /\ pc' = "register"
    /\ result' = result
    /\ failures' = failures \cup {op}

(* An exception raised by step `op` of the outer try block. *)
Fault(op) ==
    /\ pc' = "done"
    /\ result' = EntrypointExcept(op)
    /\ failures' = failures \cup {op}

(* await ctx.connect() *)
Connect(ok) ==
    /\ pc = "connect"
    /\ steps' = IF ok THEN Append(steps, "connect") ELSE steps
    /\ IF ok
       THEN /\ pc' = "build"
            /\ room_connected' = TRUE
            /\ UNCHANGED <<result, failures>>
       ELSE /\ Fault("connect")
            /\ UNCHANGED room_connected
    /\ UNCHANGED <<registered, initial_count, empty_room_counter, cleanup,
                   agent_instructions, tasks, observerVars, tokenVars>>

(* tavus.AvatarSession(...), RealtimeModel(...), AgentSession(...): local *)
(* construction, which raises on a malformed configuration.               *)
BuildAdapters(ok) ==
    /\ pc = "build"
    /\ steps' = IF ok THEN Append(steps, "build") ELSE steps
    /\ IF ok
       THEN /\ pc' = "avatar_start"
            /\ UNCHANGED <<result, failures>>
       ELSE Fault("build")
    /\ UNCHANGED <<room_connected, registered, initial_count, empty_room_counter,
                   cleanup, agent_instructions, tasks, observerVars, tokenVars>>

(* Variant: session.start() is never awaited. *)
AvatarStart_SkipsSession(ok) ==
    /\ pc = "avatar_start"
    /\ steps' = IF ok THEN Append(steps, "avatar_start") ELSE steps
    /\ IF ok
       THEN /\ pc' = "register"
            /\ UNCHANGED <<result, failures>>
       ELSE Fault("avatar_start")
    /\ UNCHANGED <<room_connected, registered, initial_count, empty_room_counter,
                   cleanup, agent_instructions, tasks, observerVars, tokenVars>>

(* await avatar.start(session, room=ctx.room), then await asyncio.sleep(1) *)
AvatarStart(ok) ==
    /\ pc = "avatar_start"
    /\ steps' = IF ok THEN Append(steps, "avatar_start") ELSE steps
    /\ IF ok
       THEN /\ pc' = "session_start"
            /\ UNCHANGED <<result, failures>>
       ELSE Fault("avatar_start")
    /\ UNCHANGED <<room_connected, registered, initial_count, empty_room_counter,
                   cleanup, agent_instructions, tasks, observerVars, tokenVars>>

(* agent = DebugAvatarAgent(); await session.start(room=ctx.room, agent=agent) *)
SessionStart(ok) ==
    /\ pc = "session_start"
    /\ steps' = IF ok THEN Append(steps, "session_start") ELSE steps
    /\ IF ok
       THEN /\ pc' = "register"
            /\ UNCHANGED <<result, failures>>
       ELSE Fault("session_start")
    /\ UNCHANGED <<room_connected, registered, initial_count, empty_room_counter,
                   cleanup, agent_instructions, tasks, observerVars, tokenVars>>

(* ctx.room.on("data_received", on_data_received), then the monitor's locals: *)
(* initial_count = len(ctx.room.remote_participants); empty_room_counter = 0  *)
RegisterRouter(c) ==
    /\ pc = "register"
    /\ registered' = TRUE
    /\ steps' = Append(steps, "register")
    /\ initial_count' = c
    /\ empty_room_counter' = 0
    /\ pc' = "monitor"
    /\ UNCHANGED <<result, failures, room_connected, cleanup,
                   agent_instructions, tasks, observerVars, tokenVars>>

----------------------------------------------------------------------------
(* entrypoint(): the monitor loop *)

(* Variant: the else branch that resets the counter is missing. *)
NextCounter_NoReset(counter, c) == IF c = 0 THEN counter + 1 ELSE counter

(* empty_room_counter after a tick that observed current_count = c *)
NextCounter(counter, c) == IF c = 0 THEN counter + 1 ELSE 0

(* Variant: the comparison is off by one. *)
ThresholdReached_Early(counter, c) == c = 0 /\ counter >= IdleThreshold - 1

(* Variant: the comparison is strict. *)
ThresholdReached_Late(counter, c) == c = 0 /\ counter > IdleThreshold

(* `if empty_room_counter >= 4`, reached only on a tick that observed 0 *)
ThresholdReached(counter, c) == c = 0 /\ counter >= IdleThreshold

(* Variant: the `break` is missing, the loop goes on after the clean-up *)
(* threshold.                                                          *)
MonitorTick_NoBreak(c) ==
    /\ pc = "monitor"
    /\ initial_count' = c
    /\ empty_room_counter' = IF c = 0 THEN (IF empty_room_counter < IdleThreshold
                                             THEN empty_room_counter + 1
                                             ELSE empty_room_counter)
                             ELSE 0
    /\ pc' = "monitor"
    /\ steps' = IF steps[Len(steps)] = "tick" THEN steps ELSE Append(steps, "tick")
    /\ UNCHANGED <<result, failures, room_connected, registered, cleanup>>

(* One iteration of `while True`: the sleep ends, the count is read, the   *)
(* counter is updated and, at the threshold, the clean-up block is entered. *)
MonitorTick(c) ==
    /\ pc = "monitor"
    /\ initial_count' = c
    /\ empty_room_counter' = NextCounter(empty_room_counter, c)
    /\ pc' = IF ThresholdReached(empty_room_counter', c) THEN "delete_room" ELSE "monitor"
    /\ steps' = IF steps[Len(steps)] = "tick" THEN steps ELSE Append(steps, "tick")
    /\ UNCHANGED <<result, failures, room_connected, registered, cleanup>>

(* A tick of the running agent. *)
Tick(c) ==
    /\ MonitorTick(c)
    /\ UNCHANGED <<agent_instructions, tasks, observerVars, tokenVars>>

(* A tick whose observation is recorded. *)
ObservedTick(c) ==
    /\ Len(obs) < MaxTicks
    /\ MonitorTick(c)
    /\ obs' = Append(obs, c)
    /\ ctr_hist' = Append(ctr_hist, empty_room_counter')
    /\ teardownAt' = IF pc' = "delete_room" THEN Len(obs') ELSE teardownAt
    /\ UNCHANGED <<agent_instructions, tasks, beat, tokenVars>>

(* A tick that flips the beat, so that every tick is a step that shows. *)
BeatTick(c) ==
    /\ MonitorTick(c)
    /\ beat' = 1 - beat
    /\ UNCHANGED <<agent_instructions, tasks, obs, ctr_hist, teardownAt, tokenVars>>

----------------------------------------------------------------------------
(* entrypoint(): the clean-up block of the monitor loop *)

(* Variant: the handler only logs and goes on to the disconnect, without *)
(* closing lk_api.                                                      *)
AfterDeleteExcept_NoClose(bound) == "disconnect"

(* Variant: an unbound lk_api makes the handler itself raise, which leaves *)
(* the loop through the outer handler without disconnecting.              *)
AfterDeleteExcept_Escapes(bound) == IF bound THEN "aclose_except" ELSE "done"

(* Where the handler `except Exception` of the room deletion continues:    *)
(* it closes lk_api when the name is bound, then falls through to the      *)
(* disconnect.                                                             *)
AfterDeleteExcept(bound) == IF bound THEN "aclose_except" ELSE "disconnect"

(* lk_api = api.LiveKitAPI(...); await lk_api.room.delete_room(...) *)
DeleteRoom(constructOk, deleteOk) ==
    /\ pc = "delete_room"
    /\ UNCHANGED steps
    /\ cleanup' = [cleanup EXCEPT
            !.deleteAttempts = @ + 1,
            !.lk_api_bound = constructOk,
            !.deleteOutcome = IF ~constructOk THEN "no_client"
                              ELSE IF deleteOk THEN "ok" ELSE "raised"]
    /\ pc' = IF constructOk /\ deleteOk THEN "aclose" ELSE AfterDeleteExcept(constructOk)
    /\ failures' = failures \cup (IF constructOk /\ deleteOk THEN {}
                                  ELSE IF constructOk THEN {"delete_room"}
                                  ELSE {"LiveKitAPI"})
    /\ UNCHANGED <<result, room_connected, registered, initial_count,
                   empty_room_counter, agent_instructions, tasks, observerVars, tokenVars>>

(* await lk_api.aclose() after a successful deletion; an exception lands in *)
(* the same `except Exception`, which closes again.                         *)
Aclose(ok) ==
    /\ pc = "aclose"
    /\ UNCHANGED steps
    /\ cleanup' = [cleanup EXCEPT !.closeAttempts = @ + 1]
    /\ pc' = IF ok THEN "disconnect" ELSE AfterDeleteExcept(cleanup.lk_api_bound)
    /\ failures' = failures \cup (IF ok THEN {} ELSE {"aclose"})
    /\ UNCHANGED <<result, room_connected, registered, initial_count,
                   empty_room_counter, agent_instructions, tasks, observerVars, tokenVars>>

(* await lk_api.aclose() inside the handler, under a bare `except: pass` *)
AcloseExcept(ok) ==
    /\ pc = "aclose_except"
    /\ UNCHANGED steps
    /\ cleanup' = [cleanup EXCEPT !.closeAttempts = @ + 1]
    /\ pc' = "disconnect"
    /\ failures' = failures \cup (IF ok THEN {} ELSE {"aclose"})
    /\ UNCHANGED <<result, room_connected, registered, initial_count,
                   empty_room_counter, agent_instructions, tasks, observerVars, tokenVars>>

(* How entrypoint() ends after the disconnect attempt: the bare             *)
(* `except: pass` swallows a failure, `break` leaves the loop, the finally  *)
(* block logs and entrypoint() returns.                                    *)
AfterDisconnect(ok) == "returned"

(* await ctx.room.disconnect(); break *)
Disconnect(ok) ==
    /\ pc = "disconnect"
    /\ UNCHANGED steps
    /\ cleanup' = [cleanup EXCEPT
            !.disconnectAttempts = @ + 1,
            !.disconnectOutcome = IF ok THEN "ok" ELSE "raised"]
    /\ room_connected' = IF ok THEN FALSE ELSE room_connected
    /\ failures' = failures \cup (IF ok THEN {} ELSE {"disconnect"})
    /\ pc' = "done"
    /\ result' = AfterDisconnect(ok)
    /\ UNCHANGED <<registered, initial_count, empty_room_counter,
                   agent_instructions, tasks, observerVars, tokenVars>>

----------------------------------------------------------------------------
(* on_data_received() and the handle_data() tasks *)

(* dict.get(key, default) on the parsed JSON object *)
DictGet(field, default) == IF field = ABSENT THEN default ELSE field

(* The exception handle_data() raises before it reaches the type check, or  *)
(* "none": data.decode('utf-8'), json.loads(message), the log line that     *)
(* reads data_packet.participant.identity, and data_obj.get on a JSON value *)
(* that is no object.                                                      *)
ParseFault(pkt) ==
    IF pkt.payload = "invalid_utf8" THEN "UnicodeDecodeError"
    ELSE IF pkt.payload = "invalid_json" THEN "JSONDecodeError"
    ELSE IF ~pkt.sender THEN "AttributeError"
    ELSE IF pkt.payload = "json_non_object" THEN "AttributeError"
    ELSE "none"

(* Variant: a missing type is taken for a user message. *)
IsUserMessage_DefaultUser(pkt) == DictGet(pkt.type, "user_message") = "user_message"

(* data_obj.get('type') == 'user_message' *)
IsUserMessage(pkt) == DictGet(pkt.type, NONE) = "user_message"

(* Variant: data_obj.get('content') without the default. *)
ContentOf_NoDefault(pkt) == DictGet(pkt.content, NONE)

(* content = data_obj.get('content', '') *)
ContentOf(pkt) == DictGet(pkt.content, "")

(* Variant: only `except json.JSONDecodeError` is there. *)
HandlerExcept_JsonOnly(exc) == IF exc = "JSONDecodeError" THEN "logged" ELSE "escaped"

(* The outer handlers of handle_data(): `except json.JSONDecodeError` and   *)
(* `except Exception` both log and end the task normally.                   *)
HandlerExcept(exc) == "logged"

(* The instructions argument of the primary call *)
PrimaryArgument(content) == content

(* What the fallback leaves in agent.instructions once generate_reply()    *)
(* has returned or raised: the assignment that restores the saved value    *)
(* follows the await, so an exception skips it.                            *)
AfterFallback(ok, current, original) == IF ok THEN original ELSE current

(* Variant: the fallback has no `except Exception as fallback_error` and the *)
(* outer handlers are not there to catch it either.                        *)
FallbackOutcome_Escapes(ok) == IF ok THEN "ok" ELSE "escaped"

(* How the task ends after the fallback call: "Fallback method succeeded", *)
(* or `except Exception as fallback_error` logs "Fallback also failed".    *)
FallbackOutcome(ok) == IF ok THEN "ok" ELSE "logged"

(* Variant: the fallback writes nothing useful into agent.instructions. *)
FallbackWrite_Keeps(content, current) == current

(* agent.instructions = content *)
FallbackWrite(content, current) == content

NewTask(pkt) ==
    [pc |-> "scheduled", pkt |-> pkt, content |-> UNSET,
     original_instructions |-> UNSET, calls |-> <<>>,
     primary |-> "none", fallback |-> "none", writes |-> 0, outcome |-> "running"]

TaskIds == 1..Len(tasks)

(* Variant: the callback runs the handler to completion before it takes *)
(* the next packet.                                                     *)
OnDataReceived_Awaits(pkt) ==
    /\ registered
    /\ room_connected
    /\ Len(tasks) < MaxTasks
    /\ \A h \in TaskIds : tasks[h].pc = "done"
    /\ tasks' = Append(tasks, NewTask(pkt))
    /\ UNCHANGED <<mainVars, agent_instructions, observerVars, tokenVars>>

(* on_data_received(data_packet): asyncio.create_task(handle_data()) *)
OnDataReceived(pkt) ==
    /\ registered
    /\ room_connected
    /\ Len(tasks) < MaxTasks
    /\ tasks' = Append(tasks, NewTask(pkt))
    /\ UNCHANGED <<mainVars, agent_instructions, observerVars, tokenVars>>

(* handle_data() from its start to its first await: decode, parse, check   *)
(* the type and call session.generate_reply(instructions=content).         *)
HandleData(h) ==
    /\ h \in TaskIds
    /\ tasks[h].pc = "scheduled"
    /\ LET t == tasks[h]
           exc == ParseFault(t.pkt)
       IN  tasks' = [tasks EXCEPT ![h] =
                IF exc # "none"
                THEN [t EXCEPT !.pc = "done", !.outcome = HandlerExcept(exc)]
                ELSE IF ~IsUserMessage(t.pkt)
                THEN [t EXCEPT !.pc = "done", !.outcome = "ok"]
                ELSE [t EXCEPT !.pc = "primary",
                               !.content = ContentOf(t.pkt),
                               !.calls = Append(@, PrimaryArgument(ContentOf(t.pkt)))]]
    /\ UNCHANGED <<mainVars, agent_instructions, observerVars, tokenVars>>

(* The primary generate_reply() returns, or raises and the handler enters  *)
(* the fallback: save agent.instructions, overwrite it with the content    *)
(* and call session.generate_reply() without instructions.                 *)
PrimaryReturns(h, ok) ==
    /\ h \in TaskIds
    /\ tasks[h].pc = "primary"
    /\ LET t == tasks[h]
       IN  IF ok
           THEN /\ tasks' = [tasks EXCEPT ![h] =
                        [t EXCEPT !.pc = "done", !.primary = "ok", !.outcome = "ok"]]
                /\ UNCHANGED agent_instructions
           ELSE IF AgentHasInstructions
           THEN /\ tasks' = [tasks EXCEPT ![h] =
                        [t EXCEPT !.pc = "fallback", !.primary = "raised",
                                  !.original_instructions = agent_instructions,
                                  !.writes = @ + 1,
                                  !.calls = Append(@, NOT_GIVEN)]]
                /\ agent_instructions' = FallbackWrite(t.content, agent_instructions)
           ELSE /\ tasks' = [tasks EXCEPT ![h] =
                        [t EXCEPT !.pc = "done", !.primary = "raised", !.outcome = "logged"]]
                /\ UNCHANGED agent_instructions
    /\ UNCHANGED <<mainVars, observerVars, tokenVars>>

(* The fallback generate_reply() returns and the saved instructions are    *)
(* written back, or it raises and `except Exception as fallback_error`     *)
(* logs.                                                                   *)
FallbackReturns(h, ok) ==
    /\ h \in TaskIds
    /\ tasks[h].pc = "fallback"
    /\ LET t == tasks[h]
       IN  /\ agent_instructions' =
                AfterFallback(ok, agent_instructions, t.original_instructions)
           /\ tasks' = [tasks EXCEPT ![h] =
                [t EXCEPT !.pc = "done",
                          !.fallback = IF ok THEN "ok" ELSE "raised",
                          !.writes = IF ok THEN @ + 1 ELSE @,
                          !.outcome = FallbackOutcome(ok)]]
    /\ UNCHANGED <<mainVars, observerVars, tokenVars>>

----------------------------------------------------------------------------
(* The token server (src/token_server.py): GET /token *)

(* The query parameters a request can carry: left out (None), empty, or a name *)
Identities == {NONE, "", "alice"}
Rooms == {NONE, "", "lobby"}

(* Variant: a missing counter.txt counts as 0. *)
GetCounter_Zero(file) == IF file = NO_FILE THEN 0 ELSE ParseInt(file)

(* get_counter(): int(f.read().strip()), or 1 (written to the file) when *)
(* counter.txt does not exist.                                           *)
GetCounter(file) == IF file = NO_FILE THEN 1 ELSE ParseInt(file)

(* increment_counter(): the number it returns; it writes str() of it *)
IncrementCounter(file) == GetCounter(file) + 1

(* f"avatar-user-{counter}", f"avatar-room-{counter}" *)
DefaultName(prefix, counter) == prefix \o Text(Digits(counter))

(* `if not identity:` / `if not room:` is true of None and of "" *)
Falsy(value) == value \in {NONE, ""}

(* create_token(identity, room). outcome says whether the credentials are *)
(* configured and whether building the JWT raises; both failures answer   *)
(* with HTTP 500, after the counter was incremented.                      *)
CreateToken(identity, room, outcome) ==
    /\ Len(responses) < MaxRequests
    /\ LET counter == IncrementCounter(counter_file)
           id == IF Falsy(identity) THEN DefaultName("avatar-user-", counter) ELSE identity
           rm == IF Falsy(room) THEN DefaultName("avatar-room-", counter) ELSE room
       IN  /\ counter_file' = Digits(counter)
           /\ responses' = Append(responses,
                    [asked_identity |-> identity, asked_room |-> room, counter |-> counter,
                     default_identity |-> DefaultName("avatar-user-", counter),
                     default_room |-> DefaultName("avatar-room-", counter),
                     status |-> IF outcome = "ok" THEN 200 ELSE 500,
                     identity |-> IF outcome = "ok" THEN id ELSE NONE,
                     room |-> IF outcome = "ok" THEN rm ELSE NONE])
    /\ UNCHANGED agentVars

----------------------------------------------------------------------------
(* The lifecycle phase of the session, read off the position of entrypoint() *)

Phase ==
    CASE pc = "connect" -> "Connecting"
      [] pc \in {"build", "avatar_start", "session_start", "register"} -> "Provisioning"
      [] pc = "monitor" -> "Live"
      [] pc \in {"delete_room", "aclose", "aclose_except", "disconnect"} -> "Draining"
      [] pc = "done" -> "Closed"

----------------------------------------------------------------------------
(* Specifications *)

Startup ==
    \/ \E ok \in BOOLEAN : Connect(ok)
    \/ \E ok \in BOOLEAN : BuildAdapters(ok)
    \/ \E ok \in BOOLEAN : AvatarStart(ok)
    \/ \E ok \in BOOLEAN : SessionStart(ok)
    \/ \E c \in Counts : RegisterRouter(c)

Teardown ==
    \/ \E constructOk, deleteOk \in BOOLEAN : DeleteRoom(constructOk, deleteOk)
    \/ \E ok \in BOOLEAN : Aclose(ok)
    \/ \E ok \in BOOLEAN : AcloseExcept(ok)
    \/ \E ok \in BOOLEAN : Disconnect(ok)

Router ==
    \/ \E pkt \in Packets : OnDataReceived(pkt)
    \/ \E h \in 1..MaxTasks : HandleData(h)
    \/ \E h \in 1..MaxTasks, ok \in BOOLEAN : PrimaryReturns(h, ok)
    \/ \E h \in 1..MaxTasks, ok \in BOOLEAN : FallbackReturns(h, ok)

(* The agent: start-up, message handlers, monitor loop and clean-up. *)
Next ==
    \/ Startup
    \/ \E c \in Counts : Tick(c)
    \/ Teardown
    \/ Router

Spec == Init /\ [][Next]_vars

(* The entrypoint alone, with every tick of the monitor loop recorded. *)
NextMonitor ==
    \/ Startup
    \/ \E c \in Counts : ObservedTick(c)
    \/ Teardown

SpecMonitor == Init /\ [][NextMonitor]_vars

(* The agent with its monitor loop scheduled fairly: asyncio wakes the    *)
(* loop up after every sleep(1), so a tick that can run does run, while  *)
(* the handler tasks run in between.                                     *)
NextLive ==
    \/ Startup
    \/ \E c \in Counts : BeatTick(c)
    \/ Teardown
    \/ Router

SpecLive == Init /\ [][NextLive]_vars /\ WF_vars(\E c \in Counts : BeatTick(c))

(* The token server answering requests one after the other. *)
NextToken ==
    \E identity \in Identities, room \in Rooms,
       outcome \in {"ok", "no_credentials", "jwt_error"} :
            CreateToken(identity, room, outcome)

SpecToken == TokenInit /\ [][NextToken]_vars

----------------------------------------------------------------------------
(* Properties *)

(* C1: every run of entrypoint() executes the clean-up (the attempt to      *)
(* delete the room, then the attempt to disconnect) exactly once, whether   *)
(* it ends at the idle threshold or because a start-up step raised.         *)
C1_CleanupExactlyOnce ==
    pc = "done" =>
        /\ cleanup.deleteAttempts = 1
        /\ cleanup.disconnectAttempts = 1

(* C2: a tick begins the clean-up if and only if it and the 3 ticks before  *)
(* it all observed a count of zero; the loop is still running exactly when  *)
(* no tick has begun the clean-up.                                          *)
C2_TeardownIffFourZeros ==
    /\ \A k \in 1..Len(obs) :
            (teardownAt = k) <=> (k >= 4 /\ \A j \in (k - 3)..k : obs[j] = 0)
    /\ (pc = "monitor") => (teardownAt = 0)
    /\ (Phase \in {"Draining", "Closed"} /\ Len(obs) > 0) => (teardownAt = Len(obs))

C2_Witness ==
    /\ obs = <<0, 0, 1, 0, 0, 0, 0>>
    /\ teardownAt = 7
    /\ Phase = "Draining"

(* C3: when a handler has entered the fallback, agent.instructions equals   *)
(* the value the handler saved once the handler finishes, whether the       *)
(* fallback generate_reply() returned or raised.                            *)
C3_RestoredAfterFallback ==
    [][\A h \in TaskIds :
            (tasks[h].pc = "fallback" /\ tasks'[h].pc = "done")
                => agent_instructions' = tasks[h].original_instructions]_vars

(* C4: fallbacks of concurrent handlers are serialized: when no fallback    *)
(* call raised, no handler saved a value another handler's fallback wrote,  *)
(* and once no handler is inside the fallback agent.instructions is the     *)
(* value it had before any fallback began.                                  *)
C4_FallbacksSerialized ==
    (\A h \in TaskIds : tasks[h].fallback # "raised") =>
        /\ \A h \in TaskIds :
                tasks[h].primary = "raised"
                    => tasks[h].original_instructions = DefaultInstructions
        /\ (\A h \in TaskIds : tasks[h].pc # "fallback")
                => agent_instructions = DefaultInstructions

(* C5: a handler whose payload is not valid UTF-8 or not valid JSON ends in *)
(* its first step without any generate_reply() call, with the exception     *)
(* logged inside the task, and leaves empty_room_counter, agent.instructions *)
(* and the position of entrypoint() as they were.                           *)
Malformed(pkt) == pkt.payload \in {"invalid_utf8", "invalid_json"}

C5_MalformedDiscarded ==
    [][\A h \in TaskIds :
            (Malformed(tasks[h].pkt) /\ tasks[h].pc = "scheduled"
                                     /\ tasks'[h].pc # "scheduled")
                => /\ tasks'[h].pc = "done"
                   /\ tasks'[h].calls = <<>>
                   /\ tasks'[h].writes = 0
                   /\ tasks'[h].outcome = "logged"
                   /\ empty_room_counter' = empty_room_counter
                   /\ agent_instructions' = agent_instructions
                   /\ pc' = pc
                   /\ Phase' = Phase]_vars

C5_Witness ==
    /\ Len(tasks) = 2
    /\ tasks[1].pkt.payload = "invalid_utf8" /\ tasks[1].pc = "done"
    /\ tasks[2].pkt.payload = "invalid_json" /\ tasks[2].pc = "done"
    /\ empty_room_counter = 2
    /\ Phase = "Live"

(* C6: a handler of a JSON object from a known sender whose type is absent  *)
(* or is not "user_message" makes no generate_reply() call, never writes    *)
(* agent.instructions and ends without an exception.                        *)
WellFormedOther(pkt) ==
    /\ pkt.payload = "json_object"
    /\ pkt.sender
    /\ pkt.type # "user_message"

C6_OtherTypesIgnored ==
    \A h \in TaskIds :
        WellFormedOther(tasks[h].pkt) =>
            /\ tasks[h].pc \in {"scheduled", "done"}
            /\ tasks[h].calls = <<>>
            /\ tasks[h].writes = 0
            /\ tasks[h].outcome = (IF tasks[h].pc = "done" THEN "ok" ELSE "running")

C6_Witness ==
    /\ Len(tasks) = 2
    /\ tasks[1].pkt.type = "ping" /\ tasks[1].pkt.content = "a" /\ tasks[1].pc = "done"
    /\ tasks[2].pkt.payload = "json_object" /\ tasks[2].pkt.sender
    /\ tasks[2].pkt.type = ABSENT /\ tasks[2].pc = "done"

(* C7: a handler of a user message whose primary generate_reply() returned  *)
(* has made exactly one call, with the packet's content ("" when the        *)
(* content is absent) as instructions, has not entered the fallback and has *)
(* not written agent.instructions.                                          *)
C7_PrimarySuccess ==
    \A h \in TaskIds :
        tasks[h].primary = "ok" =>
            /\ tasks[h].pkt.type = "user_message"
            /\ tasks[h].pc = "done"
            /\ tasks[h].calls =
                    <<IF tasks[h].pkt.content = ABSENT THEN "" ELSE tasks[h].pkt.content>>
            /\ tasks[h].fallback = "none"
            /\ tasks[h].writes = 0
            /\ tasks[h].original_instructions = UNSET
            /\ tasks[h].outcome = "ok"

C7_Witness ==
    /\ Len(tasks) = 2
    /\ tasks[1].primary = "ok" /\ tasks[1].pkt.content = ABSENT
    /\ tasks[2].primary = "ok" /\ tasks[2].pkt.content = "b"

(* C8: on the observations 0,0,0,1,0,0,0,0 from a fresh loop the counter    *)
(* after each tick is 1,2,3,0,1,2,3,4 and the clean-up begins at the 8th    *)
(* tick and at no earlier one.                                              *)
Scenario == <<0, 0, 0, 1, 0, 0, 0, 0>>
ScenarioCounters == <<1, 2, 3, 0, 1, 2, 3, 4>>

C8_Scenario ==
    \A k \in 1..Len(obs) :
        (k <= Len(Scenario) /\ SubSeq(obs, 1, k) = SubSeq(Scenario, 1, k)) =>
            /\ ctr_hist[k] = ScenarioCounters[k]
            /\ (teardownAt = k) <=> (k = 8)

C8_Witness ==
    /\ obs = Scenario
    /\ ctr_hist = ScenarioCounters
    /\ teardownAt = 8
    /\ pc = "done"

(* C9: once the clean-up has attempted the room deletion, whatever came of  *)
(* it (deleted, raised, or no API client), entrypoint() is on its way to    *)
(* the disconnect or has attempted it exactly once, and the deletion was    *)
(* attempted exactly once, also after a disconnect that raised.             *)
C9_DisconnectIndependent ==
    cleanup.deleteOutcome # "none" =>
        /\ cleanup.deleteAttempts = 1
        /\ \/ /\ pc \in {"aclose", "aclose_except", "disconnect"}
              /\ cleanup.disconnectAttempts = 0
           \/ /\ pc = "done"
              /\ cleanup.disconnectAttempts = 1

C9_Witness ==
    /\ pc = "done"
    /\ cleanup.deleteOutcome = "no_client"
    /\ cleanup.disconnectOutcome = "raised"
    /\ cleanup.closeAttempts = 0

(* C10: no exception leaves entrypoint(): whichever of connect, avatar      *)
(* start, session start, room deletion, client close and disconnect raise,  *)
(* entrypoint() has returned normally exactly when it is finished, and the  *)
(* session is then Closed.                                                  *)
C10_NoExceptionEscapes ==
    /\ result \in {"running", "returned"}
    /\ (pc = "done") <=> (result = "returned")
    /\ (result = "returned") <=> (Phase = "Closed")
    /\ (failures \cap {"connect", "build", "avatar_start", "session_start"} # {})
            => result = "returned"

C10_Witness ==
    /\ result = "returned"
    /\ failures = {"delete_room", "aclose", "disconnect"}

(* C11: when connect, avatar start or session start has raised, the router  *)
(* was never registered, the monitor loop never ticked, no handler task     *)
(* (hence no generate_reply() call) exists and entrypoint() has finished.   *)
Range(seq) == {seq[i] : i \in 1..Len(seq)}

StartupFailed == failures \cap {"connect", "avatar_start", "session_start"} # {}

C11_StartupFailureNeverLive ==
    StartupFailed =>
        /\ ~registered
        /\ Range(steps) \cap {"register", "tick"} = {}
        /\ tasks = <<>>
        /\ agent_instructions = DefaultInstructions
        /\ empty_room_counter = 0
        /\ Phase = "Closed"

C11_Witness ==
    /\ failures = {"session_start"}
    /\ steps = <<"connect", "build", "avatar_start">>
    /\ room_connected
    /\ pc = "done"

(* C12: the completed lifecycle steps are always a prefix of connect, build, *)
(* avatar start, session start, router registration, first tick; a step is  *)
(* waiting to run only when exactly the steps before it have completed and  *)
(* none has raised; the monitor loop runs only with the router registered.  *)
LifecycleOrder ==
    <<"connect", "build", "avatar_start", "session_start", "register", "tick">>

C12_StrictOrder ==
    /\ Len(steps) <= Len(LifecycleOrder)
    /\ steps = SubSeq(LifecycleOrder, 1, Len(steps))
    /\ \A i \in 1..5 :
            pc = LifecycleOrder[i] =>
                /\ steps = SubSeq(LifecycleOrder, 1, i - 1)
                /\ failures = {}
    /\ (pc = "monitor") => (registered /\ Len(steps) >= 5 /\ failures = {})
    /\ registered <=> (Len(steps) >= 5)
    /\ (tasks # <<>>) => registered

C12_Witness ==
    /\ steps = LifecycleOrder
    /\ pc = "monitor"
    /\ empty_room_counter = 2

(* C13: a step of a handler task, whatever the outcome of its primary and   *)
(* fallback calls, leaves the position and result of entrypoint(), the      *)
(* phase, the clean-up record and empty_room_counter as they were, and no   *)
(* exception leaves a task; empty_room_counter changes only in a tick.      *)
C13_HandlerFailuresContained ==
    [][/\ (tasks' # tasks) =>
            /\ UNCHANGED <<pc, result, failures, registered, room_connected,
                           initial_count, empty_room_counter, cleanup, steps>>
            /\ Phase' = Phase
            /\ \A h \in 1..Len(tasks') : tasks'[h].outcome # "escaped"
       /\ (empty_room_counter' # empty_room_counter) =>
            /\ pc = "monitor"
            /\ tasks' = tasks]_vars

C13_Witness ==
    /\ Len(tasks) = 2
    /\ tasks[1].primary = "raised" /\ tasks[1].fallback = "raised" /\ tasks[1].pc = "done"
    /\ tasks[2].pkt.payload = "invalid_utf8" /\ tasks[2].pc = "done"
    /\ Phase = "Live"
    /\ empty_room_counter = 3
    /\ failures = {}

(* C14: while a handler task is suspended in a generate_reply() call, the   *)
(* callback can still take any further packet, every created task can still *)
(* start, and the monitor loop can still tick with any count.               *)
InFlight(h) == tasks[h].pc \in {"primary", "fallback"}

C14_HandlersDoNotBlock ==
    (\E h \in TaskIds : InFlight(h)) =>
        /\ (pc = "monitor") => \A c \in Counts : ENABLED Tick(c)
        /\ (registered /\ room_connected /\ Len(tasks) < MaxTasks)
                => \A pkt \in Packets : ENABLED OnDataReceived(pkt)
        /\ \A h \in TaskIds : (tasks[h].pc = "scheduled") => ENABLED HandleData(h)

C14_Witness ==
    /\ Len(tasks) = 2
    /\ tasks[1].pc = "primary"
    /\ tasks[2].pc = "fallback"
    /\ Phase = "Draining"
    /\ empty_room_counter = 4

(* C15: generate_reply() is single-flight: at most one call, primary or     *)
(* fallback, of all handler tasks together is in flight.                    *)
C15_SingleFlight == Cardinality({h \in TaskIds : InFlight(h)}) <= 1

(* C16 as claimed: every request increments the counter by one (from 1 when *)
(* counter.txt is missing), the counters of successive requests increase,   *)
(* an absent identity or room becomes avatar-user-N or avatar-room-N, and   *)
(* every supplied value is returned unchanged.                              *)
CountersIncrease(rs) ==
    \A i \in 1..Len(rs) : \A j \in 1..Len(rs) :
        (i < j) => (rs[i].counter + (j - i) = rs[j].counter)

C16_SuppliedUnchanged ==
    /\ CountersIncrease(responses)
    /\ \A i \in 1..Len(responses) :
        LET r == responses[i]
        IN  r.status = 200 =>
                /\ r.identity = IF r.asked_identity = NONE
                                THEN r.default_identity ELSE r.asked_identity
                /\ r.room = IF r.asked_room = NONE
                            THEN r.default_room ELSE r.asked_room

(* C16 amended: as above, but an empty identity or room is replaced by the  *)
(* default like an absent one; only non-empty values are returned unchanged. *)
NamesAsAmended(rs) ==
    \A i \in 1..Len(rs) :
        LET r == rs[i]
        IN  r.status = 200 =>
                /\ r.identity = IF r.asked_identity \in {NONE, ""}
                                THEN r.default_identity ELSE r.asked_identity
                /\ r.room = IF r.asked_room \in {NONE, ""}
                            THEN r.default_room ELSE r.asked_room

(* What counter.txt reads as, and the text of the numbers, written out *)
FileReads ==
    [f \in {<<>>, <<1>>, <<2>>, <<3>>, <<4>>, <<5>>, <<9>>, <<1, 0>>, <<1, 1>>,
            <<1, 2>>, <<1, 3>>, <<9, 9>>, <<1, 0, 0>>, <<1, 0, 1>>, <<1, 0, 2>>,
            <<1, 0, 3>>} |->
        CASE f = <<>> -> 1 [] f = <<1>> -> 1 [] f = <<2>> -> 2 [] f = <<3>> -> 3
          [] f = <<4>> -> 4 [] f = <<5>> -> 5 [] f = <<9>> -> 9 [] f = <<1, 0>> -> 10
          [] f = <<1, 1>> -> 11 [] f = <<1, 2>> -> 12 [] f = <<1, 3>> -> 13
          [] f = <<9, 9>> -> 99 [] f = <<1, 0, 0>> -> 100 [] f = <<1, 0, 1>> -> 101
          [] f = <<1, 0, 2>> -> 102 [] f = <<1, 0, 3>> -> 103]

NumberTexts ==
    [n \in {2, 3, 4, 5, 10, 11, 12, 13, 100, 101, 102, 103} |->
        CASE n = 2 -> "2" [] n = 3 -> "3" [] n = 4 -> "4" [] n = 5 -> "5"
          [] n = 10 -> "10" [] n = 11 -> "11" [] n = 12 -> "12" [] n = 13 -> "13"
          [] n = 100 -> "100" [] n = 101 -> "101" [] n = 102 -> "102"
          [] n = 103 -> "103"]

C16_CounterAndDefaults ==
    [][(responses' # responses) =>
            /\ Len(responses') = Len(responses) + 1
            /\ counter_file \in DOMAIN FileReads
            /\ counter_file' \in DOMAIN FileReads
            /\ FileReads[counter_file'] = FileReads[counter_file] + 1
            /\ CountersIncrease(responses')
            /\ NamesAsAmended(responses')
            /\ LET r == responses'[Len(responses')]
               IN  /\ r.counter = FileReads[counter_file']
                   /\ r.counter \in DOMAIN NumberTexts
                   /\ r.default_identity = "avatar-user-" \o NumberTexts[r.counter]
                   /\ r.default_room = "avatar-room-" \o NumberTexts[r.counter]]_vars

C16_Witness ==
    /\ Len(responses) = 3
    /\ responses[1].counter = 10
    /\ responses[1].status = 500
    /\ responses[2].asked_identity = NONE /\ responses[2].identity = "avatar-user-11"
    /\ responses[2].asked_room = "lobby" /\ responses[2].room = "lobby"
    /\ responses[3].asked_identity = "" /\ responses[3].identity = "avatar-user-12"
    /\ counter_file = <<1, 2>>

(* C17: a tick changes empty_room_counter in one of two ways: plus 1 when   *)
(* it observed zero, to 0 when it observed a positive count; the counter    *)
(* stays within 0..4, never drops to a non-zero value, and nothing but a    *)
(* tick changes it.                                                         *)
C17_CounterSteps ==
    [][/\ (Len(obs') > Len(obs)) =>
            LET c == obs'[Len(obs')]
            IN  /\ (c = 0) => (empty_room_counter' = empty_room_counter + 1)
                /\ (c > 0) => (empty_room_counter' = 0)
                /\ empty_room_counter' \in 0..4
                /\ (empty_room_counter' < empty_room_counter) => (empty_room_counter' = 0)
       /\ (empty_room_counter' # empty_room_counter) => (Len(obs') > Len(obs))]_vars

C17_Witness ==
    /\ ctr_hist = <<1, 2, 3, 0, 0, 1, 2, 3, 4>>
    /\ empty_room_counter = 4

(* C18: with the monitor loop scheduled fairly, if from some point on no    *)
(* tick observes a positive count, a running loop is eventually left.  A    *)
(* zero tick adds one to a counter that is below 4 while the loop runs, and *)
(* the zero tick at 3 starts the teardown, so at most 4 such ticks are      *)
(* needed.  Conversely a tick with a positive count resets the counter and  *)
(* stays in the loop, and the loop is left in no other way than by the zero *)
(* tick that takes the counter from 3 to 4.                                 *)
C18_IdleExit ==
    /\ (<>[][\A c \in Counts \ {0} : ~BeatTick(c)]_vars)
            => [](pc = "monitor" => <>(pc # "monitor"))
    /\ [](pc = "monitor" => empty_room_counter \in 0..3)
    /\ [][BeatTick(0)
            => /\ empty_room_counter' = empty_room_counter + 1
               /\ (pc' = "delete_room") <=> (empty_room_counter = 3)
               /\ (pc' = "monitor") <=> (empty_room_counter < 3)]_vars
    /\ [][(\E c \in Counts \ {0} : BeatTick(c))
            => (empty_room_counter' = 0 /\ pc' = "monitor")]_vars
    /\ [][(pc = "monitor" /\ pc' # "monitor")
            => (BeatTick(0) /\ empty_room_counter = 3 /\ empty_room_counter' = 4)]_vars

C18_Witness ==
    /\ pc = "delete_room"
    /\ empty_room_counter = 4
    /\ beat = 1
    /\ steps[Len(steps)] = "tick"

(* C19: a handler enters the fallback only in the step in which its primary *)
(* generate_reply() raised; that step makes one more call, without          *)
(* instructions, with agent.instructions equal to the message's content; a  *)
(* handler makes a call beyond its first only in that step, never more than *)
(* two in all, and after the fallback it is finished and calls no more.     *)
C19_FallbackOnce ==
    /\ [](\A h \in TaskIds :
            /\ Len(tasks[h].calls) <= 2
            /\ (Len(tasks[h].calls) = 2)
                    => (tasks[h].primary = "raised" /\ tasks[h].calls[2] = NOT_GIVEN)
            /\ (tasks[h].pc = "fallback") => (Len(tasks[h].calls) = 2)
            /\ (tasks[h].fallback # "none") => (tasks[h].pc = "done"))
    /\ [][\A h \in TaskIds :
            /\ (tasks[h].pc # "fallback" /\ tasks'[h].pc = "fallback")
                    => /\ tasks[h].pc = "primary"
                       /\ tasks[h].primary = "none"
                       /\ tasks'[h].primary = "raised"
                       /\ tasks'[h].calls = Append(tasks[h].calls, NOT_GIVEN)
                       /\ agent_instructions' = tasks[h].content
            /\ (Len(tasks[h].calls) >= 1 /\ tasks'[h].calls # tasks[h].calls)
                    => (tasks[h].pc = "primary" /\ tasks'[h].pc = "fallback")
            /\ (tasks[h].pc = "done") => (tasks'[h] = tasks[h])]_vars

C19_Witness ==
    \E h \in TaskIds :
        /\ tasks[h].pc = "done"
        /\ tasks[h].content = "a"
        /\ tasks[h].calls = <<"a", NOT_GIVEN>>
        /\ tasks[h].fallback = "raised"
        /\ agent_instructions = "a"

(* C20: once the monitor loop has run the clean-up and entrypoint() has     *)
(* finished, no handler starts a generate_reply() call and none writes      *)
(* agent.instructions.                                                      *)
C20_QuietAfterTeardown ==
    [][(Phase = "Closed" /\ cleanup.deleteAttempts = 1)
            => /\ \A h \in TaskIds :
                    /\ tasks'[h].calls = tasks[h].calls
                    /\ tasks'[h].writes = tasks[h].writes
               /\ agent_instructions' = agent_instructions]_vars

(* C21: in the clean-up, when api.LiveKitAPI(...) was constructed, a close   *)
(* of lk_api has been attempted by the time the disconnect is attempted,     *)
(* whether delete_room returned or raised; when the construction raised, no  *)
(* close is attempted and the clean-up still goes on to the disconnect.  A   *)
(* close is attempted only on a constructed client, before the disconnect.   *)
C21_ClientClosed ==
    /\ [](/\ (cleanup.deleteOutcome \in {"ok", "raised"}) <=> cleanup.lk_api_bound
          /\ (cleanup.lk_api_bound /\ (pc = "disconnect" \/ cleanup.disconnectAttempts >= 1))
                => cleanup.closeAttempts >= 1
          /\ (cleanup.deleteOutcome = "no_client")
                => /\ cleanup.closeAttempts = 0
                   /\ pc \in {"disconnect", "done"}
                   /\ (pc = "done") => (cleanup.disconnectAttempts = 1))
    /\ [][(cleanup'.closeAttempts # cleanup.closeAttempts)
            => /\ cleanup.lk_api_bound
               /\ cleanup'.closeAttempts = cleanup.closeAttempts + 1
               /\ cleanup.disconnectAttempts = 0
               /\ cleanup'.disconnectAttempts = 0]_vars

C21_Witness ==
    /\ pc = "done"
    /\ cleanup.deleteOutcome = "raised"
    /\ cleanup.lk_api_bound
    /\ cleanup.closeAttempts = 1
    /\ cleanup.disconnectAttempts = 1

====
